---- MODULE Spec2Model ----
(***************************************************************************)
(* Gradient synchronisation of neuronx_distributed.parallel_layers.grads:  *)
(* bucket_allreduce_gradients, get_grad_norm and clip_grad_norm.           *)
(*                                                                         *)
(* Floating-point tensors are modelled in exact arithmetic: a scalar is a  *)
(* normalised rational <<numerator, denominator>>.                         *)
(***************************************************************************)
EXTENDS Integers, Sequences, FiniteSets, TLC

(***************************************************************************)
(* Bounds of the model.                                                    *)
(***************************************************************************)
\* longest gradient list handed to bucket_allreduce_gradients
MaxGrads == 3

\* data-parallel degrees explored by the bucketed all-reduce
DPSizes == {1, 2}

\* largest data-parallel degree
MaxDP == CHOOSE n \in DPSizes : \A m \in DPSizes : m <= n

(***************************************************************************)
(* Exact rational arithmetic.                                              *)
(***************************************************************************)
Abs(x) == IF x < 0 THEN -x ELSE x

RECURSIVE GCD(_, _)
GCD(a, b) == IF b = 0 THEN a ELSE GCD(b, a % b)

\* the rational n/d (d # 0) in lowest terms with a positive denominator
Rat(n, d) ==
    LET g == GCD(Abs(n), Abs(d))
        s == IF d < 0 THEN -1 ELSE 1
    IN  <<(s * n) \div g, (s * d) \div g>>

RInt(n) == <<n, 1>>

RAdd(x, y) == Rat(x[1] * y[2] + y[1] * x[2], x[2] * y[2])

RMul(x, y) == Rat(x[1] * y[1], x[2] * y[2])

\* x / y for y # 0
RDiv(x, y) == Rat(x[1] * y[2], x[2] * y[1])

RLess(x, y) == x[1] * y[2] < y[1] * x[2]

RMax(x, y) == IF RLess(x, y) THEN y ELSE x

(***************************************************************************)
(* bucket_allreduce_gradients.                                             *)
(***************************************************************************)
\* allreduce bucket buffer size, in MB
ALLREDUCE_BUCKET_CAP_MB == 512

Mi == 1024 * 1024

\* torch.Tensor.element_size() of the two element types of mixed precision
element_size(dtype) == IF dtype = "float32" THEN 4 ELSE 2

\* the gradients of the flush-ordering example: 100MB, 300MB, 200MB, 600MB
ExampleGrads ==
    << [dtype |-> "float32", numel |-> 25 * Mi],
       [dtype |-> "float32", numel |-> 75 * Mi],
       [dtype |-> "float32", numel |-> 50 * Mi],
       [dtype |-> "float32", numel |-> 150 * Mi] >>

\* the gradient tensors (element type and element count) of the input lists
GradShapes ==
    { [dtype |-> "float32",  numel |-> 25 * Mi],
      [dtype |-> "float32",  numel |-> 75 * Mi],
      [dtype |-> "float32",  numel |-> 150 * Mi],
      [dtype |-> "bfloat16", numel |-> 128 * Mi],
      [dtype |-> "bfloat16", numel |-> 150 * Mi] }

\* the input lists: every list of at most MaxGrads gradients, and the example
GradLists ==
    UNION { [1..n -> GradShapes] : n \in 0..MaxGrads } \cup {ExampleGrads}

\* values of the environment variable ALLREDUCE_BUCKET_CAP_MB
CapEnvChoices == {"unset", "256"}

VARIABLES
    grads_list,     \* the argument: the gradients' element types and sizes
    cap_env,        \* os.getenv("ALLREDUCE_BUCKET_CAP_MB")
    dp_size,        \* get_data_parallel_size()
    grad_data,      \* grad.data on each rank, as a linear form over the
                    \* original gradients of the data-parallel ranks
    pc,             \* each rank's position in bucket_allreduce_gradients
    group_idx,      \* each rank's position in "for tp in dtype_groups"
    pos,            \* each rank's position in "for grad in gradients"
    total,          \* each rank's running byte total
    tensor_bucket,  \* each rank's current bucket (indices into grads_list)
    calls           \* each rank's xm.all_reduce calls so far, in order

bvars == <<grads_list, cap_env, dp_size, grad_data, pc, group_idx, pos,
           total, tensor_bucket, calls>>

VARIABLES
    topology,                \* the degrees <<tp, pp, dp>>
    parameters,              \* the argument parameters
    norm_type,               \* the argument norm_type
    zero1_optimizer,         \* the argument zero1_optimizer
    zero1_optimizer_groups,  \* the argument: None, or the rank groups
    force_spmd,              \* the argument force_spmd
    max_norm,                \* the argument max_norm of clip_grad_norm
    grad,                    \* param.grad of each parameter, on each worker
    npc,                     \* each worker's position in the call
    spmd,                    \* each worker's local force_spmd
    grads,                   \* each worker's list grads
    grads_for_norm,          \* each worker's list grads_for_norm
    grads_for_norm_tp_duplicated, \* each worker's list of that name
    total_norm,              \* each worker's total_norm
    result,                  \* what get_grad_norm returned or raised, per worker
    clip_result,             \* what clip_grad_norm returned or raised, per worker
    collectives              \* the collectives each worker took part in

nvars == <<topology, parameters, norm_type, zero1_optimizer,
           zero1_optimizer_groups, force_spmd, max_norm, grad, npc, spmd,
           grads, grads_for_norm, grads_for_norm_tp_duplicated, total_norm,
           result, clip_result, collectives>>

vars == <<bvars, nvars>>

\* zero1_optimizer_groups=None
NoGroups == [none |-> TRUE, groups |-> {}]

\* the state of the norm computation while the bucketed all-reduce runs
NIdle ==
    /\ topology = <<1, 1, 1>>
    /\ parameters = <<>>
    /\ norm_type = [inf |-> FALSE, p |-> 2]
    /\ zero1_optimizer = FALSE
    /\ zero1_optimizer_groups = NoGroups
    /\ force_spmd = TRUE
    /\ max_norm = 0
    /\ grad = <<>>
    /\ npc = <<>>
    /\ spmd = <<>>
    /\ grads = <<>>
    /\ grads_for_norm = <<>>
    /\ grads_for_norm_tp_duplicated = <<>>
    /\ total_norm = <<>>
    /\ result = <<>>
    /\ clip_result = <<>>
    /\ collectives = <<>>

DPRanks == 1..dp_size

\* int(s) for the decimal strings the environment variable takes
int(s) == IF s = "256" THEN 256 ELSE 0

\* mutant of bucket_cap: the ranks read different capacities
bucket_cap_per_rank(r) ==
    ((IF cap_env = "unset" THEN ALLREDUCE_BUCKET_CAP_MB ELSE int(cap_env)) * Mi)
        \div r

\* rank r's bucket_cap:
\* int(os.getenv("ALLREDUCE_BUCKET_CAP_MB", 512)) * 1024 * 1024
bucket_cap(r) ==
    (IF cap_env = "unset" THEN ALLREDUCE_BUCKET_CAP_MB ELSE int(cap_env)) * Mi

\* grad.numel() * grad.element_size()
grad_bytes(g) == grads_list[g].numel * element_size(grads_list[g].dtype)

\* mutant of DtypeKeys: the element types in order of last appearance, latest
\* first
RECURSIVE DtypeKeysLatestFirst(_, _)
DtypeKeysLatestFirst(l, seen) ==
    IF l = <<>> THEN <<>>
    ELSE IF l[Len(l)].dtype \in seen
         THEN DtypeKeysLatestFirst(SubSeq(l, 1, Len(l) - 1), seen)
    ELSE <<l[Len(l)].dtype>>
         \o DtypeKeysLatestFirst(SubSeq(l, 1, Len(l) - 1), seen \cup {l[Len(l)].dtype})

\* the keys of dtype_groups in insertion order: each element type at its
\* first appearance in the list
RECURSIVE DtypeKeys(_, _)
DtypeKeys(l, seen) ==
    IF l = <<>> THEN <<>>
    ELSE IF Head(l).dtype \in seen THEN DtypeKeys(Tail(l), seen)
    ELSE <<Head(l).dtype>> \o DtypeKeys(Tail(l), seen \cup {Head(l).dtype})

\* the indices from i on of the gradients of l with element type tp, in
\* increasing order
RECURSIVE IndicesOf(_, _, _)
IndicesOf(l, tp, i) ==
    IF i > Len(l) THEN <<>>
    ELSE (IF l[i].dtype = tp THEN <<i>> ELSE <<>>) \o IndicesOf(l, tp, i + 1)

\* dtype_groups as the sequence of its values: per element type, in order of
\* first appearance, the gradients of that type in input order
dtype_groups ==
    LET keys == DtypeKeys(grads_list, {})
    IN  [k \in 1..Len(keys) |-> IndicesOf(grads_list, keys[k], 1)]

\* mutant of reversed: the list is walked in input order
not_reversed(s) == s

\* reversed(grads)
reversed(s) == [i \in 1..Len(s) |-> s[Len(s) + 1 - i]]

\* the gradients of rank r's current dtype group, in processing order
gradients(r) == reversed(dtype_groups[group_idx[r]])

\* the gradient rank r's inner loop is at
cur(r) == gradients(r)[pos[r]]

\* a linear form over the ranks' original gradients
ZeroForm == [k \in 1..MaxDP |-> RInt(0)]

UnitForm(r) == [k \in 1..MaxDP |-> IF k = r THEN RInt(1) ELSE RInt(0)]

FormAdd(f, g) == [k \in 1..MaxDP |-> RAdd(f[k], g[k])]

\* mutant of DivideByDP: the gradient is not divided
NotDivided(f) == f

\* grad.data /= get_data_parallel_size()
DivideByDP(f) == [k \in 1..MaxDP |-> RDiv(f[k], RInt(dp_size))]

RECURSIVE FormSum(_, _)
FormSum(F, S) ==
    IF S = {} THEN ZeroForm
    ELSE LET r == CHOOSE x \in S : TRUE
         IN  FormAdd(F[r], FormSum(F, S \ {r}))

BInit ==
    /\ NIdle
    /\ grads_list \in GradLists
    /\ cap_env \in CapEnvChoices
    /\ dp_size \in DPSizes
    /\ grad_data = [r \in DPRanks |-> [g \in 1..Len(grads_list) |-> UnitForm(r)]]
    /\ pc = [r \in DPRanks |-> "group"]
    /\ group_idx = [r \in DPRanks |-> 1]
    /\ pos = [r \in DPRanks |-> 1]
    /\ total = [r \in DPRanks |-> 0]
    /\ tensor_bucket = [r \in DPRanks |-> <<>>]
    /\ calls = [r \in DPRanks |-> <<>>]

\* rank r enters xm.all_reduce("sum", bucket, groups=groups) and blocks; it
\* resumes at label after
IssueAllReduce(r, bucket, after) ==
    /\ calls' = [calls EXCEPT ![r] = Append(@, [tensors |-> bucket, after |-> after])]
    /\ pc' = [pc EXCEPT ![r] = "all_reduce"]

\* "for tp in dtype_groups": the next group is set up, or the call returns
StartGroup(r) ==
    /\ pc[r] = "group"
    /\ IF group_idx[r] <= Len(dtype_groups)
       THEN /\ total' = [total EXCEPT ![r] = 0]
            /\ tensor_bucket' = [tensor_bucket EXCEPT ![r] = <<>>]
            /\ pos' = [pos EXCEPT ![r] = 1]
            /\ pc' = [pc EXCEPT ![r] = "grad"]
       ELSE /\ pc' = [pc EXCEPT ![r] = "return"]
            /\ UNCHANGED <<total, tensor_bucket, pos>>
    /\ UNCHANGED <<grads_list, cap_env, dp_size, grad_data, group_idx, calls>>
    /\ UNCHANGED nvars

\* the test "grad_bytes > bucket_cap"
IsOversized(r, g) == grad_bytes(g) > bucket_cap(r)

\* mutant of Spills: a bucket that is exactly full is flushed too
SpillsWhenFull(r, g) == total[r] + grad_bytes(g) >= bucket_cap(r)

\* the test "total > bucket_cap" after "total += grad_bytes"
Spills(r, g) == total[r] + grad_bytes(g) > bucket_cap(r)

\* one iteration of "for grad in gradients", up to its first all-reduce
NextGrad(r) ==
    /\ pc[r] = "grad"
    /\ pos[r] <= Len(gradients(r))
    /\ LET g == cur(r) IN
       /\ grad_data' = [grad_data EXCEPT ![r][g] = DivideByDP(@)]
       /\ IF IsOversized(r, g)
          THEN /\ IF Len(tensor_bucket[r]) > 0
                  THEN IssueAllReduce(r, tensor_bucket[r], "flushed_before_oversized")
                  ELSE IssueAllReduce(r, <<g>>, "continue")
               /\ UNCHANGED <<total, tensor_bucket, pos>>
          ELSE IF Spills(r, g)
          THEN /\ total' = [total EXCEPT ![r] = @ + grad_bytes(g)]
               /\ IssueAllReduce(r, tensor_bucket[r], "spilled")
               /\ UNCHANGED <<tensor_bucket, pos>>
          ELSE /\ total' = [total EXCEPT ![r] = @ + grad_bytes(g)]
               /\ tensor_bucket' = [tensor_bucket EXCEPT ![r] = Append(@, g)]
               /\ pos' = [pos EXCEPT ![r] = @ + 1]
               /\ UNCHANGED <<pc, calls>>
    /\ UNCHANGED <<grads_list, cap_env, dp_size, group_idx>>
    /\ UNCHANGED nvars

\* after the flush that precedes an oversized gradient: the bucket is reset
\* and the oversized gradient is reduced alone
ReduceOversized(r) ==
    /\ pc[r] = "flushed_before_oversized"
    /\ total' = [total EXCEPT ![r] = 0]
    /\ tensor_bucket' = [tensor_bucket EXCEPT ![r] = <<>>]
    /\ IssueAllReduce(r, <<cur(r)>>, "continue")
    /\ UNCHANGED <<grads_list, cap_env, dp_size, grad_data, group_idx, pos>>
    /\ UNCHANGED nvars

\* "continue" after the oversized gradient's own all-reduce
Continue(r) ==
    /\ pc[r] = "continue"
    /\ pos' = [pos EXCEPT ![r] = @ + 1]
    /\ pc' = [pc EXCEPT ![r] = "grad"]
    /\ UNCHANGED <<grads_list, cap_env, dp_size, grad_data, group_idx, total,
                   tensor_bucket, calls>>
    /\ UNCHANGED nvars

\* after the flush of a bucket that spilled: a new bucket starts with the
\* gradient that did not fit
StartNewBucket(r) ==
    /\ pc[r] = "spilled"
    /\ total' = [total EXCEPT ![r] = grad_bytes(cur(r))]
    /\ tensor_bucket' = [tensor_bucket EXCEPT ![r] = <<cur(r)>>]
    /\ pos' = [pos EXCEPT ![r] = @ + 1]
    /\ pc' = [pc EXCEPT ![r] = "grad"]
    /\ UNCHANGED <<grads_list, cap_env, dp_size, grad_data, group_idx, calls>>
    /\ UNCHANGED nvars

\* mutant of FlushLast: the last remaining bucket is not flushed
FlushLastDropped(r) ==
    /\ pc[r] = "grad"
    /\ pos[r] > Len(gradients(r))
    /\ pc' = [pc EXCEPT ![r] = "next_group"]
    /\ UNCHANGED <<grads_list, cap_env, dp_size, grad_data, group_idx, pos,
                   total, tensor_bucket, calls>>
    /\ UNCHANGED nvars

\* the end of "for grad in gradients": the last remaining bucket is flushed
FlushLast(r) ==
    /\ pc[r] = "grad"
    /\ pos[r] > Len(gradients(r))
    /\ IF Len(tensor_bucket[r]) > 0
       THEN IssueAllReduce(r, tensor_bucket[r], "next_group")
       ELSE /\ pc' = [pc EXCEPT ![r] = "next_group"]
            /\ UNCHANGED calls
    /\ UNCHANGED <<grads_list, cap_env, dp_size, grad_data, group_idx, pos,
                   total, tensor_bucket>>
    /\ UNCHANGED nvars

\* the outer loop moves to the next dtype group
NextGroup(r) ==
    /\ pc[r] = "next_group"
    /\ group_idx' = [group_idx EXCEPT ![r] = @ + 1]
    /\ pc' = [pc EXCEPT ![r] = "group"]
    /\ UNCHANGED <<grads_list, cap_env, dp_size, grad_data, pos, total,
                   tensor_bucket, calls>>
    /\ UNCHANGED nvars

\* the call rank r is blocked in
pending(r) == calls[r][Len(calls[r])]

\* the element types and sizes of the tensors of a call
ShapesOf(c) == [j \in 1..Len(c.tensors) |-> grads_list[c.tensors[j]]]

\* the collective: every rank of the data-parallel group is blocked in its
\* all-reduce and the calls match tensor by tensor; each tensor becomes the
\* sum over the ranks, in place, and every rank resumes
AllReduce ==
    /\ \A r \in DPRanks : pc[r] = "all_reduce"
    /\ \A r \in DPRanks : ShapesOf(pending(r)) = ShapesOf(pending(1))
    /\ grad_data' =
         [r \in DPRanks |->
            [g \in 1..Len(grads_list) |->
               IF \E j \in 1..Len(pending(r).tensors) : pending(r).tensors[j] = g
               THEN LET j == CHOOSE k \in 1..Len(pending(r).tensors) :
                                  pending(r).tensors[k] = g
                    IN  FormSum([q \in DPRanks |->
                                   grad_data[q][pending(q).tensors[j]]], DPRanks)
               ELSE grad_data[r][g]]]
    /\ pc' = [r \in DPRanks |-> pending(r).after]
    /\ UNCHANGED <<grads_list, cap_env, dp_size, group_idx, pos, total,
                   tensor_bucket, calls>>
    /\ UNCHANGED nvars

BNext ==
    \/ \E r \in DPRanks : StartGroup(r)
    \/ \E r \in DPRanks : NextGrad(r)
    \/ \E r \in DPRanks : ReduceOversized(r)
    \/ \E r \in DPRanks : Continue(r)
    \/ \E r \in DPRanks : StartNewBucket(r)
    \/ \E r \in DPRanks : FlushLast(r)
    \/ \E r \in DPRanks : NextGroup(r)
    \/ AllReduce

BucketSpec == BInit /\ [][BNext]_vars

(***************************************************************************)
(* get_grad_norm and clip_grad_norm.                                       *)
(*                                                                         *)
(* The workers are the points <<t, p, d>> of a tensor-parallel by          *)
(* pipeline-parallel by data-parallel grid.  Every worker runs the same    *)
(* call on the same arguments in lock-step: a step of the model is one      *)
(* step of the call on every worker that is at it.                         *)
(***************************************************************************)
\* longest parameter list
MaxParams == 2

\* the grid on which torch.pow's p-th root (p > 1) is rounded down: the
\* multiples of 1 / RootResolution
RootResolution == 4

\* (tensor-parallel, pipeline-parallel, data-parallel) degrees
Topologies ==
    { <<1, 1, 1>>, <<2, 1, 1>>, <<1, 2, 1>>, <<1, 1, 2>>, <<2, 2, 1>>, <<2, 1, 2>> }

\* norm_type: a finite p, or float("inf")
NormTypes ==
    { [inf |-> FALSE, p |-> 1], [inf |-> FALSE, p |-> 2], [inf |-> TRUE, p |-> 0] }

\* the parameters of the model.  shared and tensor_model_parallel are
\* "absent" (no such attribute), "True" or "False"; grad_none says that
\* param.grad is None; base is the gradient on the first worker; a sharded
\* gradient differs from worker to worker, another is the same on all.
ParamChoices ==
    { [shared |-> "absent", tensor_model_parallel |-> "absent",
       grad_none |-> FALSE, base |-> <<2>>, sharded |-> FALSE],
      [shared |-> "absent", tensor_model_parallel |-> "True",
       grad_none |-> FALSE, base |-> <<-5, 3>>, sharded |-> TRUE],
      [shared |-> "True", tensor_model_parallel |-> "absent",
       grad_none |-> FALSE, base |-> <<7>>, sharded |-> FALSE],
      [shared |-> "False", tensor_model_parallel |-> "False",
       grad_none |-> FALSE, base |-> <<1, -1>>, sharded |-> TRUE],
      [shared |-> "absent", tensor_model_parallel |-> "absent",
       grad_none |-> TRUE, base |-> <<>>, sharded |-> FALSE] }

ParamLists == UNION { [1..n -> ParamChoices] : n \in 0..MaxParams }

\* max_norm of clip_grad_norm
MaxNorms == {2, 5}

\* get_tensor_model_parallel_size(), get_pipeline_model_parallel_size(),
\* get_data_parallel_size()
get_tensor_model_parallel_size == topology[1]

get_pipeline_model_parallel_size == topology[2]

data_parallel_size == topology[3]

World ==
    { <<t, p, d>> : t \in 0..(topology[1] - 1), p \in 0..(topology[2] - 1),
                    d \in 0..(topology[3] - 1) }

\* the process groups of worker w
get_tensor_model_parallel_group(w) == { v \in World : v[2] = w[2] /\ v[3] = w[3] }

get_pipeline_model_parallel_group(w) == { v \in World : v[1] = w[1] /\ v[3] = w[3] }

get_data_parallel_group(w) == { v \in World : v[1] = w[1] /\ v[2] = w[2] }

\* the rank of worker w in the world
RankOf(w) == w[1] + topology[1] * (w[3] + topology[3] * w[2])

\* the gradient of a parameter on worker w as the backward pass left it: a
\* sharded gradient grows in magnitude with the rank
InitialGrad(param, w) ==
    [none |-> param.grad_none,
     data |-> [j \in 1..Len(param.base) |->
                 IF ~param.sharded THEN RInt(param.base[j])
                 ELSE IF param.base[j] < 0 THEN RInt(param.base[j] - RankOf(w))
                 ELSE RInt(param.base[j] + RankOf(w))]]

NoValue == [kind |-> "none", value |-> RInt(0), error |-> ""]

Returned(x) == [kind |-> "value", value |-> x, error |-> ""]

Raised(e) == [kind |-> "error", value |-> RInt(0), error |-> e]

\* the state of the bucketed all-reduce while the norm computation runs
BIdle ==
    /\ grads_list = <<>>
    /\ cap_env = "unset"
    /\ dp_size = 1
    /\ grad_data = <<>>
    /\ pc = <<>>
    /\ group_idx = <<>>
    /\ pos = <<>>
    /\ total = <<>>
    /\ tensor_bucket = <<>>
    /\ calls = <<>>

NInit ==
    /\ BIdle
    /\ topology \in Topologies
    /\ parameters \in ParamLists
    /\ norm_type \in NormTypes
    /\ zero1_optimizer \in BOOLEAN
    /\ zero1_optimizer_groups \in
          { NoGroups,
            [none |-> FALSE, groups |-> { get_data_parallel_group(w) : w \in World }] }
    /\ force_spmd \in BOOLEAN
    /\ max_norm = 0
    /\ grad = [w \in World |->
                 [i \in 1..Len(parameters) |-> InitialGrad(parameters[i], w)]]
    /\ npc = [w \in World |-> "call"]
    /\ spmd = [w \in World |-> force_spmd]
    /\ grads = [w \in World |-> <<>>]
    /\ grads_for_norm = [w \in World |-> <<>>]
    /\ grads_for_norm_tp_duplicated = [w \in World |-> <<>>]
    /\ total_norm = [w \in World |-> RInt(0)]
    /\ result = [w \in World |-> NoValue]
    /\ clip_result = [w \in World |-> NoValue]
    /\ collectives = [w \in World |-> <<>>]

\* torch.isinf(torch.tensor(norm_type))
isinf(nt) == nt.inf

\* mutant of InvalidConfiguration: the check has lost its "not"
InvalidConfigurationNoNot == zero1_optimizer /\ ~zero1_optimizer_groups.none

\* the check "not zero1_optimizer and zero1_optimizer_groups is not None"
InvalidConfiguration == ~zero1_optimizer /\ ~zero1_optimizer_groups.none

\* An exception get_grad_norm raises propagates through clip_grad_norm, which
\* has no handler: the outcome of the one is the outcome of the other.
Propagated(res) == res

\* mutant of forced_spmd: force_spmd is taken as the caller passed it
spmd_as_passed == force_spmd

\* "if torch.isinf(torch.tensor(norm_type)): force_spmd = True"
forced_spmd == IF isinf(norm_type) THEN TRUE ELSE force_spmd

\* the head of get_grad_norm: force_spmd is forced on for the infinity norm,
\* then the arguments are validated
Validate ==
    /\ { w \in World : npc[w] = "call" } # {}
    /\ spmd' = [w \in World |->
                  IF npc[w] # "call" THEN spmd[w]
                  ELSE forced_spmd]
    /\ IF InvalidConfiguration
       THEN /\ npc' = [w \in World |-> IF npc[w] = "call" THEN "raised" ELSE npc[w]]
            /\ result' = [w \in World |->
                            IF npc[w] = "call"
                            THEN Raised("ValueError: zero1_optimizer_groups while zero1_optimizer is False")
                            ELSE result[w]]
            /\ clip_result' = [w \in World |-> Propagated(result'[w])]
       ELSE /\ npc' = [w \in World |-> IF npc[w] = "call" THEN "classify" ELSE npc[w]]
            /\ UNCHANGED <<result, clip_result>>
    /\ UNCHANGED <<topology, parameters, norm_type, zero1_optimizer,
                   zero1_optimizer_groups, force_spmd, max_norm, grad, grads,
                   grads_for_norm, grads_for_norm_tp_duplicated, total_norm,
                   collectives>>
    /\ UNCHANGED bvars

\* param_is_not_shared(param)
param_is_not_shared(param) == param.shared = "absent" \/ ~(param.shared = "True")

\* param_is_not_tensor_parallel_duplicate(param) on worker w: the parameter is
\* tensor-parallel, or w is the first worker of its tensor-parallel group
param_is_not_tensor_parallel_duplicate(param, w) ==
    \/ param.tensor_model_parallel = "True"
    \/ w[1] = 0

\* hasattr(param, "tensor_model_parallel") and param.tensor_model_parallel
is_tp_param(param) ==
    param.tensor_model_parallel # "absent" /\ param.tensor_model_parallel = "True"

\* the branch "grads_for_norm.append(grad)" is taken for parameter i
ToGradsForNorm(w, i) ==
    /\ ~grad[w][i].none
    /\ param_is_not_shared(parameters[i])
    /\ \/ is_tp_param(parameters[i])
       \/ param_is_not_tensor_parallel_duplicate(parameters[i], w) /\ ~spmd[w]

\* mutant of ToTpDuplicated: the "elif" is an "if"
ToTpDuplicatedIf(w, i) ==
    /\ ~grad[w][i].none
    /\ param_is_not_shared(parameters[i])
    /\ spmd[w]

\* the branch "grads_for_norm_tp_duplicated.append(grad)" is taken
ToTpDuplicated(w, i) ==
    /\ ~grad[w][i].none
    /\ param_is_not_shared(parameters[i])
    /\ ~( \/ is_tp_param(parameters[i])
          \/ param_is_not_tensor_parallel_duplicate(parameters[i], w) /\ ~spmd[w] )
    /\ spmd[w]

\* the parameters from i on for which Test holds, in order
RECURSIVE Collect(_, _, _)
Collect(Test(_, _), w, i) ==
    IF i > Len(parameters) THEN <<>>
    ELSE (IF Test(w, i) THEN <<i>> ELSE <<>>) \o Collect(Test, w, i + 1)

HasGrad(w, i) == ~grad[w][i].none

\* the loop "for param in parameters" that fills the three lists
Classify ==
    /\ { w \in World : npc[w] = "classify" } # {}
    /\ grads' = [w \in World |->
                   IF npc[w] = "classify" THEN Collect(HasGrad, w, 1) ELSE grads[w]]
    /\ grads_for_norm' =
         [w \in World |->
            IF npc[w] = "classify" THEN Collect(ToGradsForNorm, w, 1)
            ELSE grads_for_norm[w]]
    /\ grads_for_norm_tp_duplicated' =
         [w \in World |->
            IF npc[w] = "classify" THEN Collect(ToTpDuplicated, w, 1)
            ELSE grads_for_norm_tp_duplicated[w]]
    /\ npc' = [w \in World |-> IF npc[w] = "classify" THEN "norm" ELSE npc[w]]
    /\ UNCHANGED <<topology, parameters, norm_type, zero1_optimizer,
                   zero1_optimizer_groups, force_spmd, max_norm, grad, spmd,
                   total_norm, result, clip_result, collectives>>
    /\ UNCHANGED bvars

RAbs(x) == <<Abs(x[1]), x[2]>>

RECURSIVE RPow(_, _)
RPow(x, n) == IF n = 0 THEN RInt(1) ELSE RMul(x, RPow(x, n - 1))

\* grad.abs().max()
RECURSIVE AbsMax(_)
AbsMax(t) ==
    IF Len(t) = 1 THEN RAbs(t[1]) ELSE RMax(RAbs(Head(t)), AbsMax(Tail(t)))

\* torch.norm(grad, norm_type) ** norm_type: the sum of |x| ** norm_type
RECURSIVE NormPow(_, _)
NormPow(t, p) ==
    IF t = <<>> THEN RInt(0) ELSE RAdd(RPow(RAbs(Head(t)), p), NormPow(Tail(t), p))

\* max(grad.abs().max() for grad in l) of a non-empty list l on worker w
RECURSIVE MaxOver(_, _)
MaxOver(w, l) ==
    IF Len(l) = 1 THEN AbsMax(grad[w][l[1]].data)
    ELSE RMax(AbsMax(grad[w][Head(l)].data), MaxOver(w, Tail(l)))

\* the loop "for grad in l: total_norm += torch.norm(grad, p) ** p"
RECURSIVE SumOver(_, _, _)
SumOver(w, l, p) ==
    IF l = <<>> THEN RInt(0)
    ELSE RAdd(NormPow(grad[w][Head(l)].data, p), SumOver(w, Tail(l), p))

\* the infinity-norm branch raises when max() is given an empty sequence
EmptyMax(w) ==
    grads_for_norm_tp_duplicated[w] = <<>> \/ grads_for_norm[w] = <<>>

\* the infinity-norm branch up to its collective
LocalInfNorm(w) ==
    RMax(MaxOver(w, grads_for_norm_tp_duplicated[w]), MaxOver(w, grads_for_norm[w]))

\* mutant of DuplicatedShare: the sum is not scaled
DuplicatedShareUnscaled(w) ==
    SumOver(w, grads_for_norm_tp_duplicated[w], norm_type.p)

\* the sum over the duplicated gradients, scaled by the tensor-parallel size
DuplicatedShare(w) ==
    RDiv(SumOver(w, grads_for_norm_tp_duplicated[w], norm_type.p),
         RInt(get_tensor_model_parallel_size))

\* the largest k with (k / RootResolution) ** p <= x, from k on
RECURSIVE RootSearch(_, _, _)
RootSearch(x, p, k) ==
    IF RLess(x, RPow(Rat(k + 1, RootResolution), p)) THEN k
    ELSE RootSearch(x, p, k + 1)

\* torch.pow(x, 1.0 / p): x itself for p = 1, else rounded down on the grid
pow_root(x, p) ==
    IF p = 1 THEN x ELSE Rat(RootSearch(x, p, 0), RootResolution)

\* mutant of LocalPNorm: the root is taken of the worker's partial sum
LocalPNormRooted(w) ==
    pow_root(RAdd(IF spmd[w] THEN DuplicatedShare(w) ELSE RInt(0),
                  SumOver(w, grads_for_norm[w], norm_type.p)), norm_type.p)

\* the finite-p branch up to its collective
LocalPNorm(w) ==
    RAdd(IF spmd[w] THEN DuplicatedShare(w) ELSE RInt(0),
         SumOver(w, grads_for_norm[w], norm_type.p))

\* the reduce_op handed to _allreduce_norm_across_parallel_groups
reduce_op == IF isinf(norm_type) THEN "MAX" ELSE "SUM"

\* the passes of _allreduce_norm_across_parallel_groups, in order
Passes ==
    IF zero1_optimizer /\ zero1_optimizer_groups.none THEN <<"world">>
    ELSE (IF get_tensor_model_parallel_size > 1 THEN <<"tp">> ELSE <<>>)
         \o (IF get_pipeline_model_parallel_size > 1 THEN <<"pp">> ELSE <<>>)
         \o (IF ~zero1_optimizer_groups.none THEN <<"zero1">> ELSE <<>>)

\* where a worker goes after pass number k
AfterPass(k) == IF k < Len(Passes) THEN Passes[k + 1] ELSE "root"

PassNumber(name) == CHOOSE k \in 1..Len(Passes) : Passes[k] = name

\* the norm of the worker's own gradients
LocalNorm ==
    /\ { w \in World : npc[w] = "norm" } # {}
    /\ total_norm' =
         [w \in World |->
            IF npc[w] # "norm" THEN total_norm[w]
            ELSE IF isinf(norm_type)
                 THEN (IF EmptyMax(w) THEN total_norm[w] ELSE LocalInfNorm(w))
                 ELSE LocalPNorm(w)]
    /\ result' =
         [w \in World |->
            IF npc[w] = "norm" /\ isinf(norm_type) /\ EmptyMax(w)
            THEN Raised("ValueError: max() arg is an empty sequence")
            ELSE result[w]]
    /\ clip_result' = [w \in World |-> Propagated(result'[w])]
    /\ npc' =
         [w \in World |->
            IF npc[w] # "norm" THEN npc[w]
            ELSE IF isinf(norm_type) /\ EmptyMax(w) THEN "raised"
            ELSE AfterPass(0)]
    /\ UNCHANGED <<topology, parameters, norm_type, zero1_optimizer,
                   zero1_optimizer_groups, force_spmd, max_norm, grad, spmd,
                   grads, grads_for_norm, grads_for_norm_tp_duplicated,
                   collectives>>
    /\ UNCHANGED bvars

\* the reduction of the group's values of total_norm
RECURSIVE Reduce(_, _)
Reduce(op, S) ==
    LET w == CHOOSE x \in S : TRUE IN
    IF S = {w} THEN total_norm[w]
    ELSE IF op = "MAX" THEN RMax(total_norm[w], Reduce(op, S \ {w}))
    ELSE RAdd(total_norm[w], Reduce(op, S \ {w}))

\* the group of zero1_optimizer_groups that holds worker w
zero1_group(w) == CHOOSE g \in zero1_optimizer_groups.groups : w \in g

\* the collective of pass name with operation op, in every group (GroupOf(w)
\* is worker w's) all of whose members have entered it: each member's
\* total_norm becomes the reduction over its group, in place
Collective(name, GroupOf(_), op) ==
    LET ready(w) == npc[w] = name /\ \A v \in GroupOf(w) : npc[v] = name IN
    /\ { w \in World : ready(w) } # {}
    /\ total_norm' =
         [w \in World |-> IF ready(w) THEN Reduce(op, GroupOf(w)) ELSE total_norm[w]]
    /\ collectives' =
         [w \in World |->
            IF ready(w) THEN Append(collectives[w], [pass |-> name, op |-> op])
            ELSE collectives[w]]
    /\ npc' = [w \in World |-> IF ready(w) THEN AfterPass(PassNumber(name)) ELSE npc[w]]
    /\ UNCHANGED <<topology, parameters, norm_type, zero1_optimizer,
                   zero1_optimizer_groups, force_spmd, max_norm, grad, spmd,
                   grads, grads_for_norm, grads_for_norm_tp_duplicated, result,
                   clip_result>>
    /\ UNCHANGED bvars

\* the operation of the pass over the explicit zero1 groups: xm.REDUCE_SUM
Zero1ReduceOp == "SUM"

\* the default process group
WorldGroup(w) == World

\* torch.distributed.all_reduce(total_norm, op=reduce_op)
AllReduceWorld == Collective("world", WorldGroup, reduce_op)

\* torch.distributed.all_reduce(..., group=get_tensor_model_parallel_group())
AllReduceTP == Collective("tp", get_tensor_model_parallel_group, reduce_op)

\* torch.distributed.all_reduce(..., group=get_pipeline_model_parallel_group())
AllReducePP == Collective("pp", get_pipeline_model_parallel_group, reduce_op)

\* xm.all_reduce(xm.REDUCE_SUM, [total_norm], groups=zero1_optimizer_groups,
\* pin_layout=True)
AllReduceZero1 == Collective("zero1", zero1_group, Zero1ReduceOp)

\* the value get_grad_norm returns: total_norm[0].item(), or the root
ReturnValue(w) ==
    IF isinf(norm_type) THEN total_norm[w]
    ELSE pow_root(total_norm[w], norm_type.p)

\* get_grad_norm returns
Return ==
    /\ { w \in World : npc[w] = "root" } # {}
    /\ result' = [w \in World |->
                    IF npc[w] = "root" THEN Returned(ReturnValue(w)) ELSE result[w]]
    /\ npc' = [w \in World |-> IF npc[w] = "root" THEN "returned" ELSE npc[w]]
    /\ UNCHANGED <<topology, parameters, norm_type, zero1_optimizer,
                   zero1_optimizer_groups, force_spmd, max_norm, grad, spmd,
                   grads, grads_for_norm, grads_for_norm_tp_duplicated,
                   total_norm, clip_result, collectives>>
    /\ UNCHANGED bvars

\* 1.0e-6
Epsilon == Rat(1, 1000000)

\* clip_coeff = max_norm / (total_norm + 1.0e-6)
clip_coeff(m, norm) == RDiv(RInt(m), RAdd(norm, Epsilon))

\* mutant of ClipFactor: the gradients are scaled only when the norm is
\* greater than max_norm
ClipFactorAboveMaxNorm(m, norm) ==
    IF RLess(RInt(m), norm) THEN clip_coeff(m, norm) ELSE RInt(1)

\* torch.where(clip_coeff < 1, clip_coeff, torch.tensor(1.0))
ClipFactor(m, norm) ==
    IF RLess(clip_coeff(m, norm), RInt(1)) THEN clip_coeff(m, norm) ELSE RInt(1)

\* g.data.mul_(factor) for every gradient that is not None
Scaled(w, factor) ==
    [i \in 1..Len(parameters) |->
        IF grad[w][i].none THEN grad[w][i]
        ELSE [none |-> FALSE,
              data |-> [j \in 1..Len(grad[w][i].data) |->
                          RMul(grad[w][i].data[j], factor)]]]

\* the rest of clip_grad_norm on the workers get_grad_norm returned to: the
\* gradients are scaled and the norm is returned.  (A direct call of
\* get_grad_norm is a call of clip_grad_norm up to this step.)  On the infinity-norm path total_norm is a Python float and so is
\* "clip_coeff < 1": torch.where is handed a bool for its condition, which a
\* torch build either rejects with a TypeError or accepts; wherebool says
\* which, and matters only when there is a gradient to scale.
ClipScale(m, wherebool) ==
    /\ { w \in World : npc[w] = "returned" } # {}
    /\ max_norm' = m
    /\ LET fails(w) == isinf(norm_type) /\ ~wherebool /\ grads[w] # <<>> IN
       /\ grad' = [w \in World |->
                     IF npc[w] = "returned" /\ ~fails(w)
                     THEN Scaled(w, ClipFactor(m, result[w].value))
                     ELSE grad[w]]
       /\ clip_result' =
            [w \in World |->
               IF npc[w] # "returned" THEN clip_result[w]
               ELSE IF fails(w)
               THEN Raised("TypeError: where(): argument 'condition' must be Tensor, not bool")
               ELSE Returned(result[w].value)]
       /\ npc' = [w \in World |->
                    IF npc[w] # "returned" THEN npc[w]
                    ELSE IF fails(w) THEN "raised" ELSE "clipped"]
    /\ UNCHANGED <<topology, parameters, norm_type, zero1_optimizer,
                   zero1_optimizer_groups, force_spmd, spmd, grads,
                   grads_for_norm, grads_for_norm_tp_duplicated, total_norm,
                   result, collectives>>
    /\ UNCHANGED bvars

NNext ==
    \/ Validate
    \/ Classify
    \/ LocalNorm
    \/ AllReduceWorld
    \/ AllReduceTP
    \/ AllReducePP
    \/ AllReduceZero1
    \/ Return
    \/ \E m \in MaxNorms, wherebool \in BOOLEAN : ClipScale(m, wherebool)

NormSpec == NInit /\ [][NNext]_vars

(***************************************************************************)
(* Properties of bucket_allreduce_gradients.                               *)
(***************************************************************************)
\* the tensor lists of a sequence of calls, concatenated
RECURSIVE Flat(_)
Flat(cs) == IF cs = <<>> THEN <<>> ELSE Head(cs).tensors \o Flat(Tail(cs))

\* the subsequence of the gradients of s with element type tp
RECURSIVE OfDtype(_, _)
OfDtype(s, tp) ==
    IF s = <<>> THEN <<>>
    ELSE (IF grads_list[Head(s)].dtype = tp THEN <<Head(s)>> ELSE <<>>)
         \o OfDtype(Tail(s), tp)

IsPrefix(s, t) == Len(s) <= Len(t) /\ s = SubSeq(t, 1, Len(s))

\* the element type of dtype group k
GroupDtype(k) == grads_list[dtype_groups[k][1]].dtype

\* the input list of dtype group k, last gradient first
ReversedInput(k) ==
    [i \in 1..Len(dtype_groups[k]) |->
        dtype_groups[k][Len(dtype_groups[k]) + 1 - i]]

\* gradient g is in one of rank r's calls
Flushed(r, g) ==
    \E c \in 1..Len(calls[r]) :
        \E j \in 1..Len(calls[r][c].tensors) : calls[r][c].tensors[j] = g

\* the first call of rank r that carries gradient g
CallOf(r, g) ==
    CHOOSE c \in 1..Len(calls[r]) :
        /\ \E j \in 1..Len(calls[r][c].tensors) : calls[r][c].tensors[j] = g
        /\ \A d \in 1..(c - 1) :
              \A j \in 1..Len(calls[r][d].tensors) : calls[r][d].tensors[j] # g

\* the byte size of gradient g and the capacity, from the input alone
Bytes(g) ==
    grads_list[g].numel * (IF grads_list[g].dtype = "float32" THEN 4 ELSE 2)

Cap == (IF cap_env = "unset" THEN 512 ELSE 256) * 1024 * 1024

\* C1: within each dtype group the gradients reach the all-reduce calls in
\* exactly the reverse of their input order: the calls of the group,
\* concatenated, are at every moment a prefix of the reversed input list of
\* the group and are the whole of it when the call returns, so that every
\* gradient is carried exactly once; and a gradient larger than the bucket
\* cap is carried by a call of its own, issued after the bucket before it.
C1_ReverseOrderWithinGroup ==
    \A r \in DPRanks :
        /\ \A k \in 1..Len(dtype_groups) :
              LET sent == OfDtype(Flat(calls[r]), GroupDtype(k))
              IN  /\ IsPrefix(sent, ReversedInput(k))
                  /\ pc[r] = "return" => sent = ReversedInput(k)
        /\ Len(Flat(calls[r])) <= Len(grads_list)
        /\ \A c \in 1..Len(calls[r]) :
              \A j \in 1..Len(calls[r][c].tensors) :
                  Bytes(calls[r][c].tensors[j]) > Cap
                      => Len(calls[r][c].tensors) = 1

\* an oversized gradient was reduced right after the flush of the bucket
\* accumulated before it, and the call has returned
C1_Witness ==
    \E r \in DPRanks :
        /\ pc[r] = "return"
        /\ \E c \in 2..Len(calls[r]) :
              /\ calls[r][c].tensors # <<>>
              /\ calls[r][c - 1].tensors # <<>>
              /\ Bytes(calls[r][c].tensors[1]) > Cap
              /\ Bytes(calls[r][c - 1].tensors[1]) <= Cap
              /\ grads_list[calls[r][c].tensors[1]].dtype
                    = grads_list[calls[r][c - 1].tensors[1]].dtype

\* C2 as stated: for any two gradients a before b in the input list that
\* are flushed in different calls, b's call is issued before a's call,
\* whatever their element types.
C2_FlushOrderAnyDtype ==
    \A r \in DPRanks :
        \A a, b \in 1..Len(grads_list) :
            (a < b /\ Flushed(r, a) /\ Flushed(r, b)
                   /\ CallOf(r, a) # CallOf(r, b))
                => CallOf(r, b) < CallOf(r, a)

\* the position of element type tp among the types of the list, by first
\* appearance
FirstAppearance(tp) ==
    CHOOSE i \in 1..Len(grads_list) :
        /\ grads_list[i].dtype = tp
        /\ \A j \in 1..(i - 1) : grads_list[j].dtype # tp

\* C2 (amended): for two gradients a before b of the same element type that
\* are flushed in different calls, b's call is issued before a's call; two
\* gradients of different element types are flushed in the order in which
\* their element types first appear in the input list.
C2_FlushOrderPerDtype ==
    \A r \in DPRanks :
        \A a, b \in 1..Len(grads_list) :
            (Flushed(r, a) /\ Flushed(r, b)) =>
                /\ (a < b /\ grads_list[a].dtype = grads_list[b].dtype
                          /\ CallOf(r, a) # CallOf(r, b))
                       => CallOf(r, b) < CallOf(r, a)
                /\ (FirstAppearance(grads_list[a].dtype)
                        < FirstAppearance(grads_list[b].dtype))
                       => CallOf(r, a) < CallOf(r, b)

\* a list of two element types has been reduced, with two gradients of one
\* type in different calls and the call returned
C2_Witness ==
    \E r \in DPRanks :
        /\ pc[r] = "return"
        /\ Len(dtype_groups) = 2
        /\ \E a, b \in 1..Len(grads_list) :
              /\ a < b
              /\ grads_list[a].dtype = grads_list[b].dtype
              /\ CallOf(r, b) < CallOf(r, a)

\* the greedy partition of the list l under the byte cap, given the bucket
\* collected so far and its byte total
RECURSIVE Greedy(_, _, _)
Greedy(l, bucket, bytes) ==
    IF l = <<>> THEN (IF bucket = <<>> THEN <<>> ELSE <<bucket>>)
    ELSE LET g == Head(l) IN
         IF Bytes(g) > Cap
         THEN (IF bucket = <<>> THEN <<>> ELSE <<bucket>>)
              \o <<<<g>>>> \o Greedy(Tail(l), <<>>, 0)
         ELSE IF bytes + Bytes(g) > Cap
         THEN <<bucket>> \o Greedy(Tail(l), <<g>>, Bytes(g))
         ELSE Greedy(Tail(l), Append(bucket, g), bytes + Bytes(g))

\* the tensor lists of rank r's calls that carry gradients of type tp
RECURSIVE CallsOfDtype(_, _)
CallsOfDtype(cs, tp) ==
    IF cs = <<>> THEN <<>>
    ELSE (IF OfDtype(Head(cs).tensors, tp) # <<>>
          THEN <<Head(cs).tensors>> ELSE <<>>) \o CallsOfDtype(Tail(cs), tp)

RECURSIVE SumBytes(_)
SumBytes(s) == IF s = <<>> THEN 0 ELSE Bytes(Head(s)) + SumBytes(Tail(s))

\* C3: the calls made for a dtype group are the greedy partition of the
\* reversed list of the group under the byte cap; no call carries an empty
\* list, a call of more than one gradient totals at most the cap, and the
\* sizes 100MB, 300MB, 200MB, 600MB under the 512MB cap give the calls
\* [g4], [g3, g2], [g1].
C3_GreedyPartition ==
    \A r \in DPRanks :
        /\ \A c \in 1..Len(calls[r]) :
              /\ calls[r][c].tensors # <<>>
              /\ Len(calls[r][c].tensors) > 1
                    => SumBytes(calls[r][c].tensors) <= Cap
        /\ pc[r] = "return" =>
              \A k \in 1..Len(dtype_groups) :
                  CallsOfDtype(calls[r], GroupDtype(k))
                      = Greedy(ReversedInput(k), <<>>, 0)
        /\ (pc[r] = "return" /\ grads_list = ExampleGrads /\ cap_env = "unset")
              => [c \in 1..Len(calls[r]) |-> calls[r][c].tensors]
                    = << <<4>>, <<3, 2>>, <<1>> >>

\* the example list has been reduced under the default cap
C3_Witness ==
    \E r \in DPRanks :
        /\ pc[r] = "return"
        /\ grads_list = ExampleGrads
        /\ cap_env = "unset"
        /\ Len(calls[r]) = 3

\* C4: the ranks of a data-parallel group, called with lists of the same
\* element types and sizes and the same cap, issue the same calls with the
\* same bucket boundaries in the same order, whatever the gradients hold; a
\* rank blocked in an all-reduce is never left there by a peer that has
\* returned, and once no rank has code of its own left to run either every
\* rank has returned or all of them are blocked in calls that match, which
\* the collective completes.
C4_RanksAgreeAndReturn ==
    /\ \A r, q \in DPRanks :
          /\ \A c \in 1..Len(calls[r]) :
                c <= Len(calls[q]) => calls[q][c].tensors = calls[r][c].tensors
          /\ (pc[r] = "return" /\ pc[q] = "return")
                => Len(calls[r]) = Len(calls[q])
          /\ pc[r] = "return" => pc[q] # "all_reduce"
    /\ (\A r \in DPRanks : pc[r] \in {"all_reduce", "return"})
          => \/ \A r \in DPRanks : pc[r] = "return"
             \/ \A r \in DPRanks :
                   /\ pc[r] = "all_reduce"
                   /\ ShapesOf(pending(r)) = ShapesOf(pending(1))

\* two ranks have returned from a call that made several all-reduce calls
C4_Witness ==
    /\ dp_size = 2
    /\ \A r \in DPRanks : pc[r] = "return" /\ Len(calls[r]) >= 2

(***************************************************************************)
(* Properties of get_grad_norm and clip_grad_norm.                         *)
(***************************************************************************)
\* the gradients as the backward pass left them
grad0(w, i) == InitialGrad(parameters[i], w)

\* parameter i has a gradient on worker w and is not marked shared
Counted(w, i) == ~parameters[i].grad_none /\ parameters[i].shared # "True"

TensorParallel(i) == parameters[i].tensor_model_parallel = "True"

\* the greatest element of a non-empty set of rationals
Greatest(S) == CHOOSE m \in S : \A y \in S : ~RLess(m, y)

\* the absolute values of the gradients of worker w counted in the norm
AbsValues(w) ==
    UNION { { RAbs(grad0(w, i).data[j]) : j \in 1..Len(grad0(w, i).data) } :
              i \in { k \in 1..Len(parameters) : Counted(w, k) } }

\* the sum of |x| ** p over the gradients of worker w that are counted and
\* (tp = TRUE) tensor-parallel or (tp = FALSE) not, from parameter i on
RECURSIVE PowerSum(_, _, _)
PowerSum(w, tp, i) ==
    IF i > Len(parameters) THEN RInt(0)
    ELSE RAdd(IF Counted(w, i) /\ TensorParallel(i) = tp
              THEN NormPow(grad0(w, i).data, norm_type.p) ELSE RInt(0),
              PowerSum(w, tp, i + 1))

RECURSIVE SumOfSet(_, _)
SumOfSet(F(_), S) ==
    IF S = {} THEN RInt(0)
    ELSE LET w == CHOOSE x \in S : TRUE IN RAdd(F(w), SumOfSet(F, S \ {w}))

\* the workers whose values reach worker w through the passes: those that
\* differ from w only along the axes reduced over
ReducedWorkers(w) ==
    IF zero1_optimizer /\ zero1_optimizer_groups.none THEN World
    ELSE { v \in World : zero1_optimizer_groups.none => v[3] = w[3] }

\* the arguments of the call: groups are supplied, zero1_optimizer is False
GroupsWithoutZero1 == zero1_optimizer = FALSE /\ zero1_optimizer_groups.none = FALSE

Finished(w) == npc[w] \in {"returned", "clipped", "raised"}

\* C5: with zero1_optimizer_groups supplied and zero1_optimizer False,
\* get_grad_norm raises the configuration error with no collective issued,
\* no gradient read into any of its lists and no gradient changed;
\* clip_grad_norm raises the same error and scales nothing.
C5_ConfigErrorBeforeAnyWork ==
    GroupsWithoutZero1 =>
        \A w \in World :
            /\ npc[w] \in {"call", "raised"}
            /\ collectives[w] = <<>>
            /\ grads[w] = <<>>
            /\ grads_for_norm[w] = <<>>
            /\ grads_for_norm_tp_duplicated[w] = <<>>
            /\ \A i \in 1..Len(parameters) : grad[w][i] = grad0(w, i)
            /\ npc[w] = "raised" =>
                  /\ result[w].kind = "error"
                  /\ result[w].error
                        = "ValueError: zero1_optimizer_groups while zero1_optimizer is False"
                  /\ clip_result[w] = result[w]

\* the configuration error has been raised on a worker that holds a gradient
C5_Witness ==
    /\ GroupsWithoutZero1
    /\ \E w \in World :
          /\ npc[w] = "raised"
          /\ \E i \in 1..Len(parameters) : ~grad[w][i].none

\* C6 as stated: with the infinity norm and at least one parameter that has
\* a gradient and is not shared, get_grad_norm returns the largest absolute
\* gradient value over those parameters (of the workers reduced over),
\* however the gradients split between the two lists.
C6_InfNormIsLargestAbs ==
    \A w \in World :
        (isinf(norm_type) /\ ~GroupsWithoutZero1 /\ Finished(w)
                          /\ AbsValues(w) # {})
            => /\ result[w].kind = "value"
               /\ result[w].value
                     = Greatest(UNION { AbsValues(v) : v \in ReducedWorkers(w) })

\* C7 as stated: on the infinity-norm path every pass reduces with MAX, and
\* the value returned is the greatest of the workers' own maxima over the
\* workers reduced over.
C7_InfNormPassesUseMax ==
    \A w \in World :
        isinf(norm_type) =>
            /\ \A c \in 1..Len(collectives[w]) : collectives[w][c].op = "MAX"
            /\ result[w].kind = "value" =>
                  result[w].value
                     = Greatest(UNION { AbsValues(v) : v \in ReducedWorkers(w) })

\* all workers of w's tensor-parallel group hold the same gradients for the
\* parameters that are not tensor-parallel
SameDuplicates(w) ==
    \A v \in get_tensor_model_parallel_group(w) :
        \A i \in 1..Len(parameters) :
            ~TensorParallel(i) => grad0(v, i) = grad0(w, i)

\* C8: with force_spmd on and tensor-parallel degree T, on the finite-p path
\* each worker adds the sum over its duplicated gradients divided by T and
\* the sum over its tensor-parallel gradients undivided; after the SUM over
\* the tensor-parallel group, gradients held identically by its T workers
\* are counted once and every tensor-parallel shard in full.
C8_DuplicatesCountedOnce ==
    \A w \in World :
        (~isinf(norm_type) /\ force_spmd
            /\ npc[w] \notin {"call", "classify", "norm", "raised"})
            => /\ collectives[w] = <<>> =>
                    total_norm[w]
                       = RAdd(RDiv(PowerSum(w, FALSE, 1), RInt(topology[1])),
                              PowerSum(w, TRUE, 1))
               /\ (Len(collectives[w]) = 1 /\ collectives[w][1].pass = "tp"
                                           /\ SameDuplicates(w)) =>
                    LET shard(v) == PowerSum(v, TRUE, 1) IN
                    total_norm[w]
                       = RAdd(PowerSum(w, FALSE, 1),
                              SumOfSet(shard, get_tensor_model_parallel_group(w)))

\* two tensor-parallel workers holding the same duplicated gradient and their
\* own shards have summed their norms over the tensor-parallel group
C8_Witness ==
    /\ ~isinf(norm_type)
    /\ force_spmd
    /\ topology[1] = 2
    /\ \E w \in World :
          /\ Len(collectives[w]) = 1
          /\ collectives[w][1].pass = "tp"
          /\ SameDuplicates(w)
          /\ \E i \in 1..Len(parameters) : Counted(w, i) /\ ~TensorParallel(i)
          /\ \E i \in 1..Len(parameters) : Counted(w, i) /\ TensorParallel(i)

\* the number of positions of list l that hold i
Occurrences(l, i) == Cardinality({ k \in 1..Len(l) : l[k] = i })

\* the worker's own sum of |x| ** p over the gradients that are counted:
\* those of shared parameters are left out
OwnSum(w) ==
    RAdd(IF force_spmd
         THEN RDiv(PowerSum(w, FALSE, 1), RInt(topology[1]))
         ELSE IF w[1] = 0 THEN PowerSum(w, FALSE, 1) ELSE RInt(0),
         PowerSum(w, TRUE, 1))

\* C9: every parameter is in at most one of grads_for_norm and
\* grads_for_norm_tp_duplicated, at most once; a parameter without a
\* gradient or marked shared is in neither, whatever force_spmd is, and
\* adds nothing to the worker's norm.
C9_ExactlyOneClass ==
    \A w \in World :
      /\ (~isinf(norm_type) /\ collectives[w] = <<>>
             /\ npc[w] \notin {"call", "classify", "norm", "raised"})
            => total_norm[w] = OwnSum(w)
      /\ \A i \in 1..Len(parameters) :
            /\ Occurrences(grads_for_norm[w], i)
                  + Occurrences(grads_for_norm_tp_duplicated[w], i) <= 1
            /\ (grad[w][i].none \/ parameters[i].shared = "True")
                  => Occurrences(grads_for_norm[w], i)
                        + Occurrences(grads_for_norm_tp_duplicated[w], i) = 0
            /\ Occurrences(grads[w], i)
                  = (IF npc[w] \in {"call", "classify"} \/ GroupsWithoutZero1
                        \/ grad[w][i].none
                     THEN 0 ELSE 1)

\* a worker has classified a shared parameter that has a gradient, next to
\* a tensor-parallel parameter that went to grads_for_norm
C9_Witness ==
    \E w \in World :
        /\ \E i \in 1..Len(parameters) :
              parameters[i].shared = "True" /\ ~grad[w][i].none
        /\ grads_for_norm[w] # <<>>
        /\ spmd[w]

\* C10: the workers of the groups reduced over hold the same scalar once
\* get_grad_norm has returned; on the finite-p path it is the root of the
\* sum over all of them, the root being taken after the last reduction.
C10_SameScalarRootLast ==
    \A w \in World :
        result[w].kind = "value" =>
            /\ \A v \in ReducedWorkers(w) :
                  result[v].kind = "value" => result[v].value = result[w].value
            /\ ~isinf(norm_type) =>
                  result[w].value
                     = pow_root(SumOfSet(OwnSum, ReducedWorkers(w)), norm_type.p)

\* four workers with different gradients have returned from a 2-norm
\* reduced over the tensor-parallel and the pipeline-parallel groups
C10_Witness ==
    /\ topology = <<2, 2, 1>>
    /\ norm_type = [inf |-> FALSE, p |-> 2]
    /\ \A w \in World : result[w].kind = "value"
    /\ \E w, v \in World : OwnSum(w) # OwnSum(v)

\* min(max_norm / (norm + 1e-6), 1.0)
MinCoeffOne(norm) ==
    LET c == RDiv(RInt(max_norm), RAdd(norm, Rat(1, 1000000))) IN
    IF RLess(RInt(1), c) THEN RInt(1) ELSE c

\* the gradient of parameter i on worker w is its original value times f
ScaledBy(w, i, f) ==
    /\ ~grad[w][i].none
    /\ Len(grad[w][i].data) = Len(grad0(w, i).data)
    /\ \A j \in 1..Len(grad0(w, i).data) :
          grad[w][i].data[j] = RMul(grad0(w, i).data[j], f)

\* clip_grad_norm has run to its end on worker w after get_grad_norm
\* returned the norm to it
ClipEnded(w) == result[w].kind = "value" /\ npc[w] \in {"clipped", "raised"}

\* C11 as stated: once get_grad_norm has returned the norm, clip_grad_norm
\* multiplies every gradient that is present, those of shared parameters
\* and of tensor-parallel duplicates included, by
\* min(max_norm / (total_norm + 1e-6), 1.0), leaves a parameter without a
\* gradient untouched and returns the norm computed before the scaling.
C11_ClipScalesEveryGradient ==
    \A w \in World :
        ClipEnded(w) =>
            /\ clip_result[w] = Returned(result[w].value)
            /\ \A i \in 1..Len(parameters) :
                  IF parameters[i].grad_none THEN grad[w][i] = grad0(w, i)
                  ELSE ScaledBy(w, i, MinCoeffOne(result[w].value))

LessEq(x, y) == ~RLess(y, x)

Unchanged(w) == \A i \in 1..Len(parameters) : grad[w][i] = grad0(w, i)

\* C12 as stated: whenever the norm is at most max_norm, max_norm itself
\* included, clip_grad_norm leaves every gradient unchanged.
C12_NoClipUpToMaxNorm ==
    \A w \in World :
        (ClipEnded(w) /\ LessEq(result[w].value, RInt(max_norm)))
            => Unchanged(w)

\* C12, amended: whenever the norm plus 1e-6 is at most max_norm,
\* clip_grad_norm leaves every gradient unchanged; for a norm in
\* (max_norm - 1e-6, max_norm], max_norm included, the scaling multiplies
\* every gradient that is present by max_norm / (norm + 1e-6), which is
\* less than 1.
C12_NoClipBelowMaxNormLessEpsilon ==
    \A w \in World :
        LET norm == result[w].value
            shifted == RAdd(norm, Rat(1, 1000000))
        IN  /\ (ClipEnded(w) /\ LessEq(shifted, RInt(max_norm)))
                  => Unchanged(w)
            /\ (npc[w] = "clipped" /\ LessEq(norm, RInt(max_norm))
                                   /\ RLess(RInt(max_norm), shifted))
                  => /\ RLess(RDiv(RInt(max_norm), shifted), RInt(1))
                     /\ \A i \in 1..Len(parameters) :
                           ~parameters[i].grad_none
                              => ScaledBy(w, i, RDiv(RInt(max_norm), shifted))

\* on the finite-p path a norm equal to max_norm has been clipped against
\* and a gradient has changed
C12_Witness ==
    /\ ~isinf(norm_type)
    /\ \E w \in World :
          /\ npc[w] = "clipped"
          /\ result[w].value = RInt(max_norm)
          /\ \E i \in 1..Len(parameters) : ~grad[w][i].none /\ grad[w][i] # grad0(w, i)

(***************************************************************************)
(* Further properties of bucket_allreduce_gradients.                       *)
(***************************************************************************)
DtypeOf(g) == grads_list[g].dtype

\* all the gradients of the list s have one element type
OneDtype(s) == \A i, j \in 1..Len(s) : DtypeOf(s[i]) = DtypeOf(s[j])

\* gradient g is in rank r's bucket
InBucket(r, g) == \E j \in 1..Len(tensor_bucket[r]) : tensor_bucket[r][j] = g

\* C13: no all-reduce call and no bucket ever holds gradients of two element
\* types; once a rank has taken up a gradient of one element type, every
\* gradient of each element type that appears earlier in the list has been
\* carried by a call (the bucket left over from that group was flushed); and
\* when the rank returns every gradient has been carried by a call.
C13_OneDtypePerCall ==
    \A r \in DPRanks :
        /\ \A c \in 1..Len(calls[r]) : OneDtype(calls[r][c].tensors)
        /\ OneDtype(tensor_bucket[r])
        /\ \A g, h \in 1..Len(grads_list) :
              (/\ DtypeOf(g) # DtypeOf(h)
               /\ FirstAppearance(DtypeOf(g)) < FirstAppearance(DtypeOf(h))
               /\ Flushed(r, h) \/ InBucket(r, h))
                  => Flushed(r, g)
        /\ pc[r] = "return" => \A g \in 1..Len(grads_list) : Flushed(r, g)

\* a bucket left over at the end of one dtype group was flushed and the next
\* call carries gradients of another element type
C13_Witness ==
    \E r \in DPRanks :
        \E c \in 1..(Len(calls[r]) - 1) :
            /\ calls[r][c].after = "next_group"
            /\ Len(calls[r][c].tensors) >= 2
            /\ DtypeOf(calls[r][c].tensors[1]) # DtypeOf(calls[r][c + 1].tensors[1])

(***************************************************************************)
(* Further properties of get_grad_norm.                                    *)
(***************************************************************************)
\* the parameters from i on that are counted in the norm and (tp = TRUE)
\* tensor-parallel or (tp = FALSE) not, in order
RECURSIVE CountedFrom(_, _, _)
CountedFrom(w, tp, i) ==
    IF i > Len(parameters) THEN <<>>
    ELSE (IF Counted(w, i) /\ TensorParallel(i) = tp THEN <<i>> ELSE <<>>)
         \o CountedFrom(w, tp, i + 1)

\* what the infinity norm comes to for worker w, from the parameters, the
\* topology and the zero1 arguments alone
InfOutcome(w) ==
    LET largest(d) ==
            Greatest(UNION { AbsValues(v) : v \in { u \in World : u[3] = d } })
    IN  IF CountedFrom(w, TRUE, 1) = <<>> \/ CountedFrom(w, FALSE, 1) = <<>>
        THEN Raised("ValueError: max() arg is an empty sequence")
        ELSE IF zero1_optimizer /\ zero1_optimizer_groups.none
        THEN Returned(Greatest(UNION { AbsValues(v) : v \in World }))
        ELSE IF zero1_optimizer_groups.none THEN Returned(largest(w[3]))
        ELSE Returned(SumOfSet(largest, 0..(topology[3] - 1)))

\* C14: with the infinity norm the classification of every parameter and
\* the outcome of get_grad_norm are determined by the parameters, the
\* topology and the zero1 arguments, so they are the same for
\* force_spmd=True and force_spmd=False: on every worker, first of its
\* tensor-parallel group or not, the tensor-parallel gradients are in
\* grads_for_norm and the other counted gradients in
\* grads_for_norm_tp_duplicated.
C14_InfNormIgnoresForceSpmd ==
    \A w \in World :
        (isinf(norm_type) /\ ~GroupsWithoutZero1) =>
            /\ npc[w] \notin {"call", "classify"} =>
                  /\ grads_for_norm[w] = CountedFrom(w, TRUE, 1)
                  /\ grads_for_norm_tp_duplicated[w] = CountedFrom(w, FALSE, 1)
            /\ result[w].kind # "none" => result[w] = InfOutcome(w)

\* called with force_spmd=False, a worker that is not the first of its
\* tensor-parallel group has a gradient in the duplicated bucket and has
\* returned the infinity norm
C14_Witness ==
    /\ isinf(norm_type)
    /\ ~force_spmd
    /\ \E w \in World :
          /\ w[1] > 0
          /\ grads_for_norm_tp_duplicated[w] # <<>>
          /\ result[w].kind = "value"

(***************************************************************************)
(* The values bucket_allreduce_gradients leaves in the gradients.          *)
(***************************************************************************)
\* rank r's original gradient
Original(r) == [k \in 1..MaxDP |-> IF k = r THEN RInt(1) ELSE RInt(0)]

\* rank r's original gradient divided by the data-parallel degree, once
DividedOnce(r) == [k \in 1..MaxDP |-> IF k = r THEN Rat(1, dp_size) ELSE RInt(0)]

\* the sum over the data-parallel ranks of the original gradient divided by
\* the data-parallel degree
MeanOverDP == [k \in 1..MaxDP |-> IF k \in DPRanks THEN Rat(1, dp_size) ELSE RInt(0)]

\* gradient g is in the call rank r is blocked in
InPendingCall(r, g) ==
    /\ pc[r] = "all_reduce"
    /\ \E j \in 1..Len(calls[r][Len(calls[r])].tensors) :
          calls[r][Len(calls[r])].tensors[j] = g

\* C15: every gradient is its original, its original divided once by the
\* data-parallel degree, or the sum over the data-parallel ranks of the
\* divided originals; it is divided once when it waits in a bucket or is in
\* the call a rank is blocked in, it is the sum once its call has completed,
\* bucketed or oversized, and when the rank returns every gradient is that
\* sum.
C15_DividedOnceThenSummed ==
    \A r \in DPRanks :
        \A g \in 1..Len(grads_list) :
            /\ grad_data[r][g] \in {Original(r), DividedOnce(r), MeanOverDP}
            /\ ((InBucket(r, g) /\ ~Flushed(r, g)) \/ InPendingCall(r, g))
                  => grad_data[r][g] = DividedOnce(r)
            /\ (Flushed(r, g) /\ ~InPendingCall(r, g))
                  => grad_data[r][g] = MeanOverDP
            /\ (~Flushed(r, g) /\ ~InBucket(r, g) /\ pc[r] \in {"group", "next_group"})
                  => grad_data[r][g] = Original(r)
            /\ pc[r] = "return" => grad_data[r][g] = MeanOverDP

\* two ranks have returned from a call that reduced an oversized gradient on
\* its own and several gradients in one bucket
C15_Witness ==
    /\ dp_size = 2
    /\ \A r \in DPRanks : pc[r] = "return"
    /\ \E c, d \in 1..Len(calls[1]) :
          /\ Len(calls[1][c].tensors) >= 2
          /\ Len(calls[1][d].tensors) = 1
          /\ Bytes(calls[1][d].tensors[1]) > Cap

====
